---- MODULE Spec2Model ----
(***************************************************************************)
(* Model of the settlement core of x402-solana: the shielded-pool program  *)
(* (pool ledger, Merkle accumulator, deposit, withdraw) and the            *)
(* spend-verifier program (verifier record, nullifier set, proof check,    *)
(* verify_spend_proof, pause / unpause).                                   *)
(*                                                                         *)
(* Every instruction is one action.  An instruction that returns Err is    *)
(* aborted by the Solana runtime, which discards every account write of    *)
(* the transaction, so a failed instruction leaves every account as it     *)
(* was; only the variable `last`, which records the call and its result,   *)
(* changes.                                                                *)
(***************************************************************************)
EXTENDS Integers, Sequences, FiniteSets, TLC

VARIABLES
    verifier,       \* SpendVerifier account
    nullifier_set,  \* NullifierSet.nullifiers
    pool,           \* ShieldedPool account
    merkle_tree,    \* MerkleTree account
    token,          \* SPL token accounts: balance of each
    last,           \* the last instruction: its name, inputs and result
    leaves,         \* the leaves that the MerkleTree calls of SpecMerkleTree
                    \* inserted, in index order (history)
    registry,       \* the ZkMetaRegistry account
    vk_entries      \* the VerificationKeyEntry account of each circuit name

vars == <<verifier, nullifier_set, pool, merkle_tree, token, last, leaves,
          registry, vk_entries>>

-----------------------------------------------------------------------------
(* Bounds of the model *)

MaxAmount == 2          \* amounts and balances range over 0..MaxAmount (+1)
MaxNullifier == 2       \* nullifier values 1..MaxNullifier in public signals
MaxNullifiers == 3      \* capacity of the nullifier set (1000000 in the code)
MaxLeaf == 2            \* commitment values 1..MaxLeaf
MaxTime == 2            \* Clock unix_timestamp values 1..MaxTime
MaxHeight == 2          \* MerkleTree calls: heights 0..MaxHeight, and one above
                        \* the largest the arrays hold

(* Program constants *)

SIGNAL_COUNT == 5       \* public signals of the spend circuit
IC_LEN == 6             \* ic points of the embedded verification key
CIRCUIT_NAME_MAX == 32      \* circuit_name.len() <= 32
VERSION_MAX == 16           \* circuit_version.len() <= 16
VK_DATA_MAX == 8192         \* verification_key_data.len() <= 8192
VK_DATA_MIN == 32           \* verification_key_data.len() < 32 is invalid
MAX_SEED_LEN == 32          \* longest seed of a program derived address
FILLED_SUBTREES_LEN == 20   \* length of filled_subtrees and zeros
POOL_TREE_HEIGHT == 20      \* tree_height written by the pool's initialize

-----------------------------------------------------------------------------
(* 32-byte values.  A value is <<"L", k>>; <<"L", 0>> is [0u8; 32].  A     *)
(* hash of two values is the term <<"H", a, b>>: two hashes are equal iff  *)
(* their operands are (a collision-free hash).                             *)

Bytes32(k) == <<"L", k>>
ZERO32 == Bytes32(0)

poseidon_hash(left, right) == <<"H", left, right>>

(* Public keys *)

SPEND_VERIFIER_ID == "CwJ5s1e69mv5uAnTyaAxos9DVVQ2kWcz53BQm6krzDG9"
SpendVerifierProgramId == "55FvRWv7PoAAFtcfg1FEzTFGQbEhz63YV4npRicXMjyW"
VerifierPda == "pda[spend_verifier]"    \* address of the verifier account
PoolPda == "pda[pool]"                  \* address of the pool account
NoKey == "11111111111111111111111111111111"

Users == {"alice", "mallory"}

(* Token accounts and their owners (the authority the token program wants *)
(* to have signed a transfer out of the account).                         *)
TokenAccounts == {"custody", "alice_token", "mallory_token"}

TokenOwner(acct) ==
    CASE acct = "custody" -> PoolPda
      [] acct = "alice_token" -> "alice"
      [] acct = "mallory_token" -> "mallory"

-----------------------------------------------------------------------------
(* Results *)

Ok(st) == [result |-> "Ok", st |-> st]
Err(e, st) == [result |-> e, st |-> st]

(* The program state an instruction works on *)
State == [verifier |-> verifier, nullifier_set |-> nullifier_set,
          pool |-> pool, merkle_tree |-> merkle_tree, token |-> token]

-----------------------------------------------------------------------------
(* SPL token transfer, as deposit and withdraw call it: `authority` must   *)
(* own `from` and must have signed; `from` must hold the amount.           *)

token_transfer(tk, from, to, authority, signed, amount) ==
    IF ~signed \/ TokenOwner(from) # authority
    THEN Err("TokenOwnerMismatch", tk)
    ELSE IF tk[from] < amount
    THEN Err("TokenInsufficientFunds", tk)
    ELSE IF from = to
    THEN Ok(tk)
    ELSE Ok([tk EXCEPT ![from] = @ - amount, ![to] = @ + amount])

-----------------------------------------------------------------------------
(* MerkleTree *)

Pow2(n) == IF n = 0 THEN 1 ELSE 2 ^ n

(* Mutant: the loop of insert_leaf hashing with the cached sibling on the right *)
RECURSIVE insert_walk_sibling_right(_, _, _, _, _)
insert_walk_sibling_right(filled, height, level, current_index, current_hash) ==
    IF level >= height
    THEN filled
    ELSE IF current_index % 2 = 0
    THEN [filled EXCEPT ![level] = current_hash]
    ELSE insert_walk_sibling_right(filled, height, level + 1, current_index \div 2,
                                   poseidon_hash(current_hash, filled[level]))

(* The loop of insert_leaf from `level` on: returns filled_subtrees *)
RECURSIVE insert_walk(_, _, _, _, _)
insert_walk(filled, height, level, current_index, current_hash) ==
    IF level >= height
    THEN filled
    ELSE IF current_index % 2 = 0
    THEN [filled EXCEPT ![level] = current_hash]
    ELSE insert_walk(filled, height, level + 1, current_index \div 2,
                     poseidon_hash(filled[level], current_hash))

(* The loop of compute_root from `level` on *)
RECURSIVE root_walk(_, _, _)
root_walk(tree, level, current_hash) ==
    IF level >= tree.height
    THEN current_hash
    ELSE LET right_hash == IF level = tree.height - 1
                           THEN tree.filled_subtrees[level]
                           ELSE tree.zeros[level]
         IN root_walk(tree, level + 1, poseidon_hash(current_hash, right_hash))

compute_root(tree) == root_walk(tree, 1, tree.filled_subtrees[0])

(* Mutant: insert_leaf without the bound on leaf_index *)
insert_leaf_no_bound(tree, leaf_index, leaf) ==
    LET filled == insert_walk(tree.filled_subtrees, tree.height, 0,
                              leaf_index, leaf)
        walked == [tree EXCEPT !.filled_subtrees = filled]
    IN Ok([walked EXCEPT !.root = compute_root(walked)])

insert_leaf(tree, leaf_index, leaf) ==
    IF ~(leaf_index < Pow2(tree.height))
    THEN Err("IndexOutOfBounds", tree)
    ELSE LET filled == insert_walk(tree.filled_subtrees, tree.height, 0,
                                   leaf_index, leaf)
             walked == [tree EXCEPT !.filled_subtrees = filled]
         IN Ok([walked EXCEPT !.root = compute_root(walked)])

(* zeros[0..height-1] as MerkleTree::initialize computes them *)
RECURSIVE zeros_walk(_, _, _)
zeros_walk(zeros, height, i) ==
    IF i >= height
    THEN zeros
    ELSE zeros_walk([zeros EXCEPT ![i] = poseidon_hash(zeros[i - 1], zeros[i - 1])],
                    height, i + 1)

(* MerkleTree::initialize.  The loops index zeros[0..height-1], arrays of   *)
(* FILLED_SUBTREES_LEN entries, and the root is zeros[height - 1] with      *)
(* height a u8: for height 0 and for height > FILLED_SUBTREES_LEN the call  *)
(* panics (index out of bounds), which aborts the instruction and discards  *)
(* what it wrote: Err carries the tree as it was before the call.           *)
(* Mutant: initialize accepting height 0 as an empty tree *)
MerkleTree_initialize_zero_height(tree, height) ==
    IF height > FILLED_SUBTREES_LEN
    THEN Err("Panic", tree)
    ELSE LET zeros == zeros_walk([tree.zeros EXCEPT ![0] = ZERO32], height, 1)
             filled == [i \in DOMAIN tree.filled_subtrees |->
                           IF i < height THEN zeros[i] ELSE tree.filled_subtrees[i]]
         IN Ok([height |-> height, filled_subtrees |-> filled, zeros |-> zeros,
                root |-> zeros[0]])

MerkleTree_initialize(tree, height) ==
    IF height = 0 \/ height > FILLED_SUBTREES_LEN
    THEN Err("Panic", tree)
    ELSE LET zeros == zeros_walk([tree.zeros EXCEPT ![0] = ZERO32], height, 1)
             filled == [i \in DOMAIN tree.filled_subtrees |->
                           IF i < height THEN zeros[i] ELSE tree.filled_subtrees[i]]
         IN Ok([height |-> height, filled_subtrees |-> filled, zeros |-> zeros,
                root |-> zeros[height - 1]])

(* The loop of verify_proof from position i (1-based) on *)
RECURSIVE proof_walk(_, _, _, _, _)
proof_walk(height, proof, path_indices, i, current_hash) ==
    IF i > height
    THEN current_hash
    ELSE proof_walk(height, proof, path_indices, i + 1,
                    IF path_indices[i]
                    THEN poseidon_hash(current_hash, proof[i])
                    ELSE poseidon_hash(proof[i], current_hash))

(* Mutant: verify_proof taking the current hash as the left operand always *)
verify_proof_always_left(tree, leaf, proof, path_indices, root) ==
    IF ~(Len(proof) = tree.height) \/ ~(Len(path_indices) = tree.height)
    THEN [result |-> "InvalidInput", value |-> FALSE]
    ELSE [result |-> "Ok",
          value |-> proof_walk(tree.height, proof,
                               [i \in 1..tree.height |-> TRUE], 1, leaf) = root]

(* Mutant: a path of the wrong length is answered with false *)
verify_proof_false_on_length(tree, leaf, proof, path_indices, root) ==
    IF Len(proof) = tree.height /\ Len(path_indices) = tree.height
    THEN [result |-> "Ok",
          value |-> proof_walk(tree.height, proof, path_indices, 1, leaf) = root]
    ELSE [result |-> "Ok", value |-> FALSE]

(* Returns [result, value]: Err(InvalidInput) or Ok(bool) *)
verify_proof(tree, leaf, proof, path_indices, root) ==
    IF ~(Len(proof) = tree.height)
    THEN [result |-> "InvalidInput", value |-> FALSE]
    ELSE IF ~(Len(path_indices) = tree.height)
    THEN [result |-> "InvalidInput", value |-> FALSE]
    ELSE [result |-> "Ok",
          value |-> proof_walk(tree.height, proof, path_indices, 1, leaf) = root]

-----------------------------------------------------------------------------
(* NullifierSet *)

NullifierSet_contains(nullifiers, nullifier) ==
    \E i \in 1..Len(nullifiers) : nullifiers[i] = nullifier

(* Mutant: insert checking the capacity before the membership *)
NullifierSet_insert_capacity_first(nullifiers, nullifier) ==
    IF ~(Len(nullifiers) < MaxNullifiers)
    THEN Err("NullifierSetFull", nullifiers)
    ELSE IF NullifierSet_contains(nullifiers, nullifier)
    THEN Err("DoubleSpend", nullifiers)
    ELSE Ok(Append(nullifiers, nullifier))

(* Mutant: insert without the membership check *)
NullifierSet_insert_no_check(nullifiers, nullifier) ==
    IF ~(Len(nullifiers) < MaxNullifiers)
    THEN Err("NullifierSetFull", nullifiers)
    ELSE Ok(Append(nullifiers, nullifier))

NullifierSet_insert(nullifiers, nullifier) ==
    IF NullifierSet_contains(nullifiers, nullifier)
    THEN Err("DoubleSpend", nullifiers)
    ELSE IF ~(Len(nullifiers) < MaxNullifiers)
    THEN Err("NullifierSetFull", nullifiers)
    ELSE Ok(Append(nullifiers, nullifier))

-----------------------------------------------------------------------------
(* Groth16 proof check of the spend verifier *)

G1Zero == [x |-> ZERO32, y |-> ZERO32]
G2Zero == [x |-> <<ZERO32, ZERO32>>, y |-> <<ZERO32, ZERO32>>]

get_spend_verification_key ==
    [alpha_g1 |-> G1Zero, beta_g2 |-> G2Zero, gamma_g2 |-> G2Zero,
     delta_g2 |-> G2Zero, ic |-> [i \in 1..IC_LEN |-> G1Zero]]

(* Returns [result, value]: Err(e) or Ok(proof_valid) *)
groth16_verify(vk, proof, public_signals) ==
    IF ~(Len(vk.ic) >= 1)
    THEN [result |-> "InvalidVerificationKey", value |-> FALSE]
    ELSE IF ~(proof.pi_a.x # ZERO32)
    THEN [result |-> "InvalidProof", value |-> FALSE]
    ELSE LET public_inputs_len == Len(public_signals)
             g2_point_non_zero == proof.pi_b.x[1] # ZERO32 \/ proof.pi_b.x[2] # ZERO32
             proof_valid == /\ Len(vk.ic) = public_inputs_len + 1
                            /\ proof.pi_a.x # ZERO32
                            /\ g2_point_non_zero
                            /\ proof.pi_c.x # ZERO32
                            /\ vk.alpha_g1.x # ZERO32
                            /\ public_inputs_len > 0
         IN [result |-> "Ok", value |-> proof_valid]

-----------------------------------------------------------------------------
(* Decoding of public signals.  Signal [2] holds the 32 bytes of a public  *)
(* key, <<"K", key>>; signal [3] is a 32-byte field [lo, hi]: lo is the    *)
(* little-endian u64 in bytes 0..7, hi is 0 iff bytes 8..31 are all zero.  *)

KeyBytes(key) == <<"K", key>>
Pubkey_try_from_slice(bytes) == bytes[2]
AmountField(lo, hi) == [lo |-> lo, hi |-> hi]
u64_from_le_bytes(field) == field.lo

-----------------------------------------------------------------------------
(* shielded-pool instructions.  Each returns Ok(post state) or Err(e, the   *)
(* state written so far when the instruction returned the error).          *)

pool_initialize(st, authority) ==
    IF st.pool.init
    THEN Err("AccountAlreadyInUse", st)
    ELSE Ok([st EXCEPT !.pool = [init |-> TRUE,
                                 authority |-> authority,
                                 merkle_root |-> ZERO32,
                                 tree_height |-> POOL_TREE_HEIGHT,
                                 next_index |-> 0,
                                 total_deposits |-> 0]])

(* Mutant: deposit that does not advance next_index *)
deposit_same_index(st, accts, commitment, amount) ==
    IF ~(amount > 0)
    THEN Err("InvalidAmount", st)
    ELSE LET t == token_transfer(st.token, accts.user_token, accts.pool_token,
                                 accts.user, TRUE, amount)
         IN IF t.result # "Ok"
            THEN Err(t.result, st)
            ELSE LET leaf_index == st.pool.next_index
                     ins == insert_leaf(st.merkle_tree, leaf_index, commitment)
                 IN IF ins.result # "Ok"
                    THEN Err(ins.result, [st EXCEPT !.token = t.st])
                    ELSE Ok([st EXCEPT
                               !.token = t.st,
                               !.merkle_tree = ins.st,
                               !.pool.merkle_root = compute_root(ins.st),
                               !.pool.total_deposits = @ + amount])

(* Mutant: deposit that stores the commitment as the pool's root *)
deposit_root_is_leaf(st, accts, commitment, amount) ==
    IF ~(amount > 0)
    THEN Err("InvalidAmount", st)
    ELSE LET t == token_transfer(st.token, accts.user_token, accts.pool_token,
                                 accts.user, TRUE, amount)
         IN IF t.result # "Ok"
            THEN Err(t.result, st)
            ELSE LET leaf_index == st.pool.next_index
                     ins == insert_leaf(st.merkle_tree, leaf_index, commitment)
                 IN IF ins.result # "Ok"
                    THEN Err(ins.result, [st EXCEPT !.token = t.st])
                    ELSE Ok([st EXCEPT
                               !.token = t.st,
                               !.merkle_tree = ins.st,
                               !.pool.merkle_root = commitment,
                               !.pool.next_index = @ + 1,
                               !.pool.total_deposits = @ + amount])

(* accts: [user, user_token, pool_token] *)
deposit(st, accts, commitment, amount) ==
    IF ~(amount > 0)
    THEN Err("InvalidAmount", st)
    ELSE LET t == token_transfer(st.token, accts.user_token, accts.pool_token,
                                 accts.user, TRUE, amount)
         IN IF t.result # "Ok"
            THEN Err(t.result, st)
            ELSE LET leaf_index == st.pool.next_index
                     ins == insert_leaf(st.merkle_tree, leaf_index, commitment)
                 IN IF ins.result # "Ok"
                    THEN Err(ins.result, [st EXCEPT !.token = t.st])
                    ELSE Ok([st EXCEPT
                               !.token = t.st,
                               !.merkle_tree = ins.st,
                               !.pool.merkle_root = compute_root(ins.st),
                               !.pool.next_index = @ + 1,
                               !.pool.total_deposits = @ + amount])

(* Mutant: withdraw without the check of the ledger balance *)
withdraw_no_funds_check(st, accts, amount, recipient) ==
    IF ~(amount > 0)
    THEN Err("InvalidAmount", st)
    ELSE IF ~(accts.spend_verifier = SPEND_VERIFIER_ID)
    THEN Err("UnauthorizedWithdrawal", st)
    ELSE LET t == token_transfer(st.token, accts.pool_token, accts.recipient_token,
                                 accts.pool_authority,
                                 accts.pool_authority = PoolPda, amount)
         IN IF t.result # "Ok"
            THEN Err(t.result, st)
            ELSE Ok([st EXCEPT !.token = t.st,
                               !.pool.total_deposits = @ - amount])

(* Mutant: withdraw without the check of the spend_verifier account's key *)
withdraw_any_caller(st, accts, amount, recipient) ==
    IF ~(amount > 0)
    THEN Err("InvalidAmount", st)
    ELSE IF ~(st.pool.total_deposits >= amount)
    THEN Err("InsufficientFunds", st)
    ELSE LET t == token_transfer(st.token, accts.pool_token, accts.recipient_token,
                                 accts.pool_authority,
                                 accts.pool_authority = PoolPda, amount)
         IN IF t.result # "Ok"
            THEN Err(t.result, st)
            ELSE Ok([st EXCEPT !.token = t.st,
                               !.pool.total_deposits = @ - amount])

(* accts: [spend_verifier, pool_authority, pool_token, recipient_token];   *)
(* the transfer is signed for the address derived from the seed "pool".    *)
withdraw(st, accts, amount, recipient) ==
    IF ~(amount > 0)
    THEN Err("InvalidAmount", st)
    ELSE IF ~(st.pool.total_deposits >= amount)
    THEN Err("InsufficientFunds", st)
    ELSE IF ~(accts.spend_verifier = SPEND_VERIFIER_ID)
    THEN Err("UnauthorizedWithdrawal", st)
    ELSE LET t == token_transfer(st.token, accts.pool_token, accts.recipient_token,
                                 accts.pool_authority,
                                 accts.pool_authority = PoolPda, amount)
         IN IF t.result # "Ok"
            THEN Err(t.result, st)
            ELSE Ok([st EXCEPT !.token = t.st,
                               !.pool.total_deposits = @ - amount])

-----------------------------------------------------------------------------
(* spend-verifier instructions *)

verifier_initialize(st, authority) ==
    IF st.verifier.init
    THEN Err("AccountAlreadyInUse", st)
    ELSE Ok([st EXCEPT !.verifier = [init |-> TRUE,
                                     authority |-> authority,
                                     verification_key |-> get_spend_verification_key,
                                     nullifier_count |-> 0,
                                     total_verified_amount |-> 0,
                                     is_paused |-> FALSE],
                       !.nullifier_set = <<>>])

(* The body of verify_spend_proof after the check of the signal count *)
verify_spend_proof_body(st, accts, proof, public_signals) ==
    LET merkle_root == public_signals[1]
        nullifier_hash == public_signals[2]
        recipient == Pubkey_try_from_slice(public_signals[3])
        amount == u64_from_le_bytes(public_signals[4])
        gv == groth16_verify(st.verifier.verification_key, proof, public_signals)
    IN
    IF gv.result # "Ok"
    THEN Err(gv.result, st)
    ELSE IF ~gv.value
    THEN Err("InvalidProof", st)
    ELSE IF ~(st.pool.merkle_root = merkle_root)
    THEN Err("InvalidMerkleRoot", st)
    ELSE IF NullifierSet_contains(st.nullifier_set, nullifier_hash)
    THEN Err("DoubleSpend", st)
    ELSE
    LET w == withdraw(st, [spend_verifier |-> VerifierPda,
                           pool_authority |-> accts.pool_authority,
                           pool_token |-> accts.pool_token,
                           recipient_token |-> accts.recipient_token],
                      amount, recipient)
    IN
    IF w.result # "Ok"
    THEN Err(w.result, w.st)
    ELSE
    LET ins == NullifierSet_insert(w.st.nullifier_set, nullifier_hash)
    IN
    IF ins.result # "Ok"
    THEN Err(ins.result, w.st)
    ELSE Ok([w.st EXCEPT !.nullifier_set = ins.st,
                         !.verifier.nullifier_count = @ + 1,
                         !.verifier.total_verified_amount = @ + amount])

(* accts: [pool_authority, pool_token, recipient_token].  The constraint    *)
(* !verifier.is_paused of the accounts struct is checked before the body.  *)
(* Mutant: the signal count checked before the pause constraint.           *)
verify_spend_proof_count_first(st, accts, proof, public_signals) ==
    IF ~(Len(public_signals) = SIGNAL_COUNT)
    THEN Err("InvalidPublicInputCount", st)
    ELSE IF st.verifier.is_paused
    THEN Err("VerifierPaused", st)
    ELSE verify_spend_proof_body(st, accts, proof, public_signals)

verify_spend_proof(st, accts, proof, public_signals) ==
    IF st.verifier.is_paused
    THEN Err("VerifierPaused", st)
    ELSE IF ~(Len(public_signals) = SIGNAL_COUNT)
    THEN Err("InvalidPublicInputCount", st)
    ELSE verify_spend_proof_body(st, accts, proof, public_signals)

(* Mutant: unpause also counted in the verifier's statistics *)
unpause_verifier_counts(st, authority) ==
    IF ~(authority = st.verifier.authority)
    THEN Err("Unauthorized", st)
    ELSE Ok([st EXCEPT !.verifier.is_paused = FALSE,
                       !.verifier.nullifier_count = @ + 1])

(* Mutant: pause without the authority check *)
pause_verifier_any_signer(st, authority) ==
    Ok([st EXCEPT !.verifier.is_paused = TRUE])

pause_verifier(st, authority) ==
    IF ~(authority = st.verifier.authority)
    THEN Err("Unauthorized", st)
    ELSE Ok([st EXCEPT !.verifier.is_paused = TRUE])

unpause_verifier(st, authority) ==
    IF ~(authority = st.verifier.authority)
    THEN Err("Unauthorized", st)
    ELSE Ok([st EXCEPT !.verifier.is_paused = FALSE])

-----------------------------------------------------------------------------
(* Inputs *)

Signers == Users
Amounts == 0..MaxAmount
Commitments == {Bytes32(k) : k \in 1..MaxLeaf}
Nullifiers == {Bytes32(k) : k \in 1..MaxNullifier}
Roots == {ZERO32, Bytes32(1)}

ProofOf(a, b1, b2, c) ==
    [pi_a |-> [x |-> Bytes32(a), y |-> Bytes32(1)],
     pi_b |-> [x |-> <<Bytes32(b1), Bytes32(b2)>>, y |-> <<Bytes32(1), Bytes32(1)>>],
     pi_c |-> [x |-> Bytes32(c), y |-> Bytes32(1)]]

(* A proof with no zero point and one whose pi_a.x is zero *)
Proofs == {ProofOf(1, 1, 1, 1), ProofOf(0, 1, 1, 1)}

AmountFields == {AmountField(a, 0) : a \in Amounts}

SpendSignals ==
    {<<r, n, KeyBytes("alice"), f, Bytes32(1)>> :
        r \in Roots, n \in Nullifiers, f \in AmountFields}

(* A vector of 5 signals, cut to 4 and extended to 6 *)
BaseSignals == <<ZERO32, Bytes32(1), KeyBytes("alice"), AmountField(1, 0), Bytes32(1)>>

(* Signal [3] with a byte that is not zero after its first 8 bytes *)
WideAmountSignals == [BaseSignals EXCEPT ![4] = AmountField(1, 1)]

SignalVectors ==
    SpendSignals
    \cup {SubSeq(BaseSignals, 1, SIGNAL_COUNT - 1), Append(BaseSignals, ZERO32)}
    \cup {WideAmountSignals}

WithdrawKeys == {SPEND_VERIFIER_ID, VerifierPda}
PoolTokens == {"custody", "mallory_token"}
RecipientTokens == {"alice_token", "mallory_token"}

-----------------------------------------------------------------------------
(* zk-meta-registry.  A String is its text and its length in bytes; a       *)
(* Vec<u8> is its length and whether some byte of it is not zero.            *)

Str(text, len) == [text |-> text, len |-> len]
Bytes(len, nonzero) == [len |-> len, nonzero |-> nonzero /\ len > 0]
sha256(data) == <<"SHA256", data>>

NoEntry ==
    [init |-> FALSE, circuit_name |-> Str("", 0), circuit_version |-> Str("", 0),
     verification_key |-> Bytes(0, FALSE), verification_key_hash |-> ZERO32,
     registered_at |-> 0, is_active |-> FALSE]

RegistryState == [registry |-> registry, vk_entries |-> vk_entries]

registry_initialize(st, authority) ==
    IF st.registry.init
    THEN Err("AccountAlreadyInUse", st)
    ELSE Ok([st EXCEPT !.registry = [init |-> TRUE, authority |-> authority,
                                     circuit_count |-> 0]])

(* register_verification_key with the constraints of RegisterVerificationKey: *)
(* the entry is `init` at the address derived from the seeds [b"vk_entry",    *)
(* circuit_name], which is done before the handler runs.  Deriving the        *)
(* address panics for a seed longer than MAX_SEED_LEN, and creating the       *)
(* account fails when it exists already.                                      *)
register_verification_key(st, authority, circuit_name, circuit_version, verification_key_data, now) ==
    IF circuit_name.len > MAX_SEED_LEN
    THEN Err("Panic", st)
    ELSE IF st.vk_entries[circuit_name].init
    THEN Err("AccountAlreadyInUse", st)
    ELSE IF ~(authority = st.registry.authority)
    THEN Err("Unauthorized", st)
    ELSE IF ~(circuit_name.len <= CIRCUIT_NAME_MAX)
    THEN Err("CircuitNameTooLong", st)
    ELSE IF ~(circuit_version.len <= VERSION_MAX)
    THEN Err("VersionTooLong", st)
    ELSE IF ~(verification_key_data.len <= VK_DATA_MAX)
    THEN Err("VerificationKeyTooLarge", st)
    ELSE IF verification_key_data.len = 0
    THEN Err("EmptyVerificationKey", st)
    ELSE IF verification_key_data.len < VK_DATA_MIN
    THEN Err("InvalidVerificationKey", st)
    ELSE IF ~verification_key_data.nonzero
    THEN Err("InvalidVerificationKey", st)
    ELSE Ok([st EXCEPT
               !.vk_entries[circuit_name] =
                   [init |-> TRUE,
                    circuit_name |-> circuit_name,
                    circuit_version |-> circuit_version,
                    verification_key |-> verification_key_data,
                    verification_key_hash |-> sha256(verification_key_data),
                    registered_at |-> now,
                    is_active |-> TRUE],
               !.registry.circuit_count = @ + 1])

(* entry: the address of the verification_key_entry account passed *)
update_verification_key(st, authority, entry, new_version, verification_key_data, now) ==
    IF ~st.vk_entries[entry].init
    THEN Err("AccountNotInitialized", st)
    ELSE IF ~(authority = st.registry.authority)
    THEN Err("Unauthorized", st)
    ELSE IF ~(new_version.len <= VERSION_MAX)
    THEN Err("VersionTooLong", st)
    ELSE IF ~(verification_key_data.len <= VK_DATA_MAX)
    THEN Err("VerificationKeyTooLarge", st)
    ELSE Ok([st EXCEPT
               !.vk_entries[entry].circuit_version = new_version,
               !.vk_entries[entry].verification_key = verification_key_data,
               !.vk_entries[entry].registered_at = now])

(* Mutant: deactivation also erases the key bytes *)
deactivate_verification_key_erasing(st, authority, entry) ==
    IF ~st.vk_entries[entry].init
    THEN Err("AccountNotInitialized", st)
    ELSE IF ~(authority = st.registry.authority)
    THEN Err("Unauthorized", st)
    ELSE Ok([st EXCEPT !.vk_entries[entry].is_active = FALSE,
                       !.vk_entries[entry].verification_key = Bytes(0, FALSE)])

(* Mutant: deactivation without the authority check *)
deactivate_verification_key_any_signer(st, authority, entry) ==
    IF ~st.vk_entries[entry].init
    THEN Err("AccountNotInitialized", st)
    ELSE Ok([st EXCEPT !.vk_entries[entry].is_active = FALSE])

deactivate_verification_key(st, authority, entry) ==
    IF ~st.vk_entries[entry].init
    THEN Err("AccountNotInitialized", st)
    ELSE IF ~(authority = st.registry.authority)
    THEN Err("Unauthorized", st)
    ELSE Ok([st EXCEPT !.vk_entries[entry].is_active = FALSE])

(* Inputs of the registry instructions *)
CircuitNames == {Str("name_of_32_bytes", CIRCUIT_NAME_MAX),
                 Str("name_of_33_bytes", CIRCUIT_NAME_MAX + 1)}
EntryAddresses == {n \in CircuitNames : n.len <= MAX_SEED_LEN}
Versions == {Str("v2.0", 4), Str("version_of_16_bytes", VERSION_MAX),
             Str("version_of_17_bytes", VERSION_MAX + 1)}
KeyData == {Bytes(0, FALSE), Bytes(VK_DATA_MIN - 1, TRUE),
            Bytes(VK_DATA_MIN, FALSE), Bytes(VK_DATA_MIN, TRUE),
            Bytes(VK_DATA_MAX, TRUE), Bytes(VK_DATA_MAX + 1, TRUE)}
Times == 1..MaxTime

BaseName == Str("name_of_32_bytes", CIRCUIT_NAME_MAX)
BaseVersion == Str("v2.0", 4)
BaseKey == Bytes(VK_DATA_MIN, TRUE)

(* <<circuit_name, circuit_version, verification_key_data>>: an accepted   *)
(* input with one argument varied, the three limits met at once, and the   *)
(* three limits exceeded at once.                                          *)
RegisterInputs ==
    {<<n, BaseVersion, BaseKey>> : n \in CircuitNames}
    \cup {<<BaseName, v, BaseKey>> : v \in Versions}
    \cup {<<BaseName, BaseVersion, k>> : k \in KeyData}
    \cup {<<BaseName, Str("version_of_16_bytes", VERSION_MAX),
            Bytes(VK_DATA_MAX, TRUE)>>,
          <<Str("name_of_33_bytes", CIRCUIT_NAME_MAX + 1),
            Str("version_of_17_bytes", VERSION_MAX + 1),
            Bytes(VK_DATA_MAX + 1, TRUE)>>}

UpdateKeyData == {Bytes(0, FALSE), Bytes(VK_DATA_MIN, TRUE),
                  Bytes(VK_DATA_MAX + 1, TRUE)}

-----------------------------------------------------------------------------
(* State machine *)

ZeroLevels == [i \in 0..(FILLED_SUBTREES_LEN - 1) |-> ZERO32]

Init ==
    /\ verifier = [init |-> FALSE, authority |-> NoKey,
                   verification_key |-> get_spend_verification_key,
                   nullifier_count |-> 0, total_verified_amount |-> 0,
                   is_paused |-> FALSE]
    /\ nullifier_set = <<>>
    /\ pool = [init |-> FALSE, authority |-> NoKey, merkle_root |-> ZERO32,
               tree_height |-> 0, next_index |-> 0, total_deposits |-> 0]
    /\ merkle_tree = [height |-> 0, filled_subtrees |-> ZeroLevels,
                      zeros |-> ZeroLevels, root |-> ZERO32]
    /\ token = [a \in TokenAccounts |-> IF a = "custody" THEN 0 ELSE MaxAmount]
    /\ last = [op |-> "none", result |-> "Ok"]
    /\ leaves = <<>>
    /\ registry = [init |-> FALSE, authority |-> NoKey, circuit_count |-> 0]
    /\ vk_entries = [a \in EntryAddresses |-> NoEntry]

(* The accounts after an instruction: the runtime commits the writes of an *)
(* instruction that returned Ok and discards those of one that returned    *)
(* Err.  `last` records the call and its result.                           *)
Commit(op, args, out) ==
    LET post == IF out.result = "Ok" THEN out.st ELSE State
    IN /\ verifier' = post.verifier
       /\ nullifier_set' = post.nullifier_set
       /\ pool' = post.pool
       /\ merkle_tree' = post.merkle_tree
       /\ token' = post.token
       /\ last' = [op |-> op, result |-> out.result, args |-> args]
       /\ UNCHANGED <<leaves, registry, vk_entries>>

InitializePool(signer) ==
    /\ signer \in Signers
    /\ Commit("pool_initialize", [authority |-> signer],
              pool_initialize(State, signer))

InitializeVerifier(signer) ==
    /\ signer \in Signers
    /\ Commit("verifier_initialize", [authority |-> signer],
              verifier_initialize(State, signer))

Deposit(user, pool_token, commitment, amount) ==
    /\ pool.init
    /\ LET accts == [user |-> user,
                     user_token |-> IF user = "alice" THEN "alice_token"
                                    ELSE "mallory_token",
                     pool_token |-> pool_token]
       IN Commit("deposit",
                 [accts |-> accts, commitment |-> commitment, amount |-> amount],
                 deposit(State, accts, commitment, amount))

Withdraw(spend_verifier, recipient_token, amount) ==
    /\ pool.init
    /\ LET accts == [spend_verifier |-> spend_verifier,
                     pool_authority |-> PoolPda,
                     pool_token |-> "custody",
                     recipient_token |-> recipient_token]
           recipient == TokenOwner(recipient_token)
       IN Commit("withdraw",
                 [accts |-> accts, amount |-> amount, recipient |-> recipient],
                 withdraw(State, accts, amount, recipient))

(* Mutant: the attempt is counted in the statistics whatever its result *)
VerifySpendProof_counts_attempt(proof, public_signals) ==
    /\ verifier.init
    /\ pool.init
    /\ LET accts == [pool_authority |-> PoolPda,
                     pool_token |-> "custody",
                     recipient_token |-> "alice_token"]
           counted == [State EXCEPT !.verifier.nullifier_count = @ + 1]
           out == verify_spend_proof(counted, accts, proof, public_signals)
       IN /\ verifier' = IF out.result = "Ok" THEN out.st.verifier
                         ELSE counted.verifier
          /\ nullifier_set' = IF out.result = "Ok" THEN out.st.nullifier_set
                              ELSE nullifier_set
          /\ pool' = IF out.result = "Ok" THEN out.st.pool ELSE pool
          /\ token' = IF out.result = "Ok" THEN out.st.token ELSE token
          /\ UNCHANGED <<merkle_tree, leaves, registry, vk_entries>>
          /\ last' = [op |-> "verify_spend_proof", result |-> out.result,
                      args |-> [accts |-> accts, proof |-> proof,
                                public_signals |-> public_signals]]

VerifySpendProof(proof, public_signals) ==
    /\ verifier.init
    /\ pool.init
    /\ LET accts == [pool_authority |-> PoolPda,
                     pool_token |-> "custody",
                     recipient_token |-> "alice_token"]
       IN Commit("verify_spend_proof",
                 [accts |-> accts, proof |-> proof, public_signals |-> public_signals],
                 verify_spend_proof(State, accts, proof, public_signals))

PauseVerifier(signer) ==
    /\ verifier.init
    /\ Commit("pause_verifier",
              [authority |-> signer, was_paused |-> verifier.is_paused],
              pause_verifier(State, signer))

UnpauseVerifier(signer) ==
    /\ verifier.init
    /\ Commit("unpause_verifier",
              [authority |-> signer, was_paused |-> verifier.is_paused],
              unpause_verifier(State, signer))

Next ==
    \/ \E signer \in Signers : InitializePool(signer)
    \/ \E signer \in Signers : InitializeVerifier(signer)
    \/ \E user \in Users, pool_token \in PoolTokens, commitment \in Commitments,
          amount \in Amounts :
          Deposit(user, pool_token, commitment, amount)
    \/ \E spend_verifier \in WithdrawKeys, recipient_token \in RecipientTokens,
          amount \in 0..(MaxAmount + 1) :
          Withdraw(spend_verifier, recipient_token, amount)
    \/ \E proof \in Proofs, public_signals \in SignalVectors :
          VerifySpendProof(proof, public_signals)
    \/ \E signer \in Signers : PauseVerifier(signer)
    \/ \E signer \in Signers : UnpauseVerifier(signer)

Spec == Init /\ [][Next]_vars

-----------------------------------------------------------------------------
(* The nullifier set on its own: calls of contains and insert *)

NullifierInputs == {Bytes32(k) : k \in 1..(MaxNullifiers + 1)}

accounts == <<verifier, nullifier_set, pool, merkle_tree, token>>

NullifierSetInsert(nullifier) ==
    LET out == NullifierSet_insert(nullifier_set, nullifier)
    IN /\ nullifier_set' = out.st
       /\ last' = [op |-> "NullifierSet_insert", result |-> out.result,
                   args |-> [nullifier |-> nullifier]]
       /\ UNCHANGED <<verifier, pool, merkle_tree, token, leaves, registry, vk_entries>>

NullifierSetContains(nullifier) ==
    /\ last' = [op |-> "NullifierSet_contains",
                result |-> IF NullifierSet_contains(nullifier_set, nullifier)
                           THEN "true" ELSE "false",
                args |-> [nullifier |-> nullifier]]
    /\ UNCHANGED <<accounts, leaves, registry, vk_entries>>

NextNullifierSet ==
    \/ \E nullifier \in NullifierInputs : NullifierSetInsert(nullifier)
    \/ \E nullifier \in NullifierInputs : NullifierSetContains(nullifier)

SpecNullifierSet == Init /\ [][NextNullifierSet]_vars

-----------------------------------------------------------------------------
(* groth16_verify on its own: calls with keys, proofs and signal vectors   *)
(* of every shape.                                                         *)

G1Of(k) == [x |-> Bytes32(k), y |-> Bytes32(k)]
G2Of(k) == [x |-> <<Bytes32(k), Bytes32(k)>>, y |-> <<Bytes32(k), Bytes32(k)>>]

(* A key with alpha_g1 = G1Of(a), beta_g2 = G2Of(b) and n ic points G1Of(c) *)
VkOf(a, b, n, c) ==
    [alpha_g1 |-> G1Of(a), beta_g2 |-> G2Of(b), gamma_g2 |-> G2Of(1),
     delta_g2 |-> G2Of(1), ic |-> [i \in 1..n |-> G1Of(c)]]

VerificationKeys ==
    {VkOf(a, b, n, c) : a \in 0..1, b \in 0..1,
                        n \in {0, IC_LEN - 1, IC_LEN, IC_LEN + 1}, c \in 0..1}

AllProofs == {ProofOf(a, b, b, c) : a \in 0..1, b \in 0..1, c \in 0..1}

SignalLengths ==
    {BaseSignals, SubSeq(BaseSignals, 1, SIGNAL_COUNT - 1),
     Append(BaseSignals, ZERO32)}

Groth16Verify(vk, proof, public_signals) ==
    LET out == groth16_verify(vk, proof, public_signals)
    IN /\ last' = [op |-> "groth16_verify", result |-> out.result,
                   value |-> out.value,
                   args |-> [vk |-> vk, proof |-> proof,
                             public_signals |-> public_signals]]
       /\ UNCHANGED <<accounts, leaves, registry, vk_entries>>

NextGroth16 ==
    \E vk \in VerificationKeys, proof \in AllProofs,
       public_signals \in SignalLengths :
        Groth16Verify(vk, proof, public_signals)

SpecGroth16 == Init /\ [][NextGroth16]_vars

-----------------------------------------------------------------------------
(* The Merkle tree on its own: calls of initialize, insert_leaf (at the     *)
(* next free index, which the caller supplies) and verify_proof.            *)

TreeHeights == 0..MaxHeight \cup {FILLED_SUBTREES_LEN + 1}

(* The full binary tree of the given height over the inserted leaves, all  *)
(* other positions holding the empty leaf: the node at `level` (0 = the    *)
(* leaves) and position j of that level.                                   *)
RECURSIVE FullNode(_, _, _)
FullNode(lvs, level, j) ==
    IF level = 0
    THEN (IF j < Len(lvs) THEN lvs[j + 1] ELSE ZERO32)
    ELSE poseidon_hash(FullNode(lvs, level - 1, 2 * j),
                       FullNode(lvs, level - 1, 2 * j + 1))

FullRoot(lvs, height) == FullNode(lvs, height, 0)

(* The honest proof of the leaf at index i: its siblings bottom-up, and    *)
(* the direction bits (set where the current value is the left operand).   *)
HonestPath(lvs, height, i) ==
    [l \in 1..height |->
        LET j == i \div Pow2(l - 1)
        IN FullNode(lvs, l - 1, IF j % 2 = 0 THEN j + 1 ELSE j - 1)]

HonestBits(height, i) ==
    [l \in 1..height |-> (i \div Pow2(l - 1)) % 2 = 0]

TreeInitialize(height) ==
    LET out == MerkleTree_initialize(merkle_tree, height)
    IN /\ merkle_tree' = IF out.result = "Ok" THEN out.st ELSE merkle_tree
       /\ leaves' = IF out.result = "Ok" THEN <<>> ELSE leaves
       /\ last' = [op |-> "MerkleTree_initialize", result |-> out.result,
                   args |-> [height |-> height]]
       /\ UNCHANGED <<verifier, nullifier_set, pool, token, registry, vk_entries>>

TreeInsertLeaf(leaf) ==
    LET leaf_index == Len(leaves)
        out == insert_leaf(merkle_tree, leaf_index, leaf)
    IN /\ merkle_tree.height > 0
       /\ merkle_tree' = out.st
       /\ leaves' = IF out.result = "Ok" THEN Append(leaves, leaf) ELSE leaves
       /\ last' = [op |-> "insert_leaf", result |-> out.result,
                   args |-> [leaf_index |-> leaf_index, leaf |-> leaf]]
       /\ UNCHANGED <<verifier, nullifier_set, pool, token, registry, vk_entries>>

(* verify_proof of the honest path of an inserted leaf; flip > 0 replaces   *)
(* the sibling at that position by another value.  The caller claims the    *)
(* stored root, or the root of the full tree over the inserted leaves.      *)
TreeVerifyProof(leaf_index, flip, stored) ==
    /\ merkle_tree.height > 0
    /\ leaf_index < Len(leaves)
    /\ flip <= merkle_tree.height
    /\ LET honest == HonestPath(leaves, merkle_tree.height, leaf_index)
           proof == [l \in 1..merkle_tree.height |->
                        IF l = flip THEN poseidon_hash(honest[l], honest[l])
                        ELSE honest[l]]
           path_indices == HonestBits(merkle_tree.height, leaf_index)
           root == IF stored THEN merkle_tree.root
                   ELSE FullRoot(leaves, merkle_tree.height)
           out == verify_proof(merkle_tree, leaves[leaf_index + 1], proof,
                               path_indices, root)
       IN last' = [op |-> "verify_proof", result |-> out.result,
                   value |-> out.value,
                   args |-> [leaf_index |-> leaf_index, flip |-> flip,
                             leaf |-> leaves[leaf_index + 1], proof |-> proof,
                             path_indices |-> path_indices,
                             root |-> root]]
    /\ UNCHANGED <<accounts, leaves, registry, vk_entries>>

(* verify_proof with a path of proof_len siblings and bits_len bits *)
TreeVerifyLengths(proof_len, bits_len, bit) ==
    /\ merkle_tree.height > 0
    /\ LET proof == [l \in 1..proof_len |-> merkle_tree.zeros[0]]
           path_indices == [l \in 1..bits_len |-> bit]
           out == verify_proof(merkle_tree, ZERO32, proof, path_indices,
                               merkle_tree.root)
       IN last' = [op |-> "verify_proof", result |-> out.result,
                   value |-> out.value,
                   args |-> [leaf_index |-> 0, flip |-> 0,
                             leaf |-> ZERO32, proof |-> proof,
                             path_indices |-> path_indices,
                             root |-> merkle_tree.root]]
    /\ UNCHANGED <<accounts, leaves, registry, vk_entries>>

NextMerkleTree ==
    \/ \E height \in TreeHeights : TreeInitialize(height)
    \/ \E leaf \in Commitments : TreeInsertLeaf(leaf)
    \/ \E leaf_index \in 0..(Pow2(MaxHeight) - 1), flip \in 0..MaxHeight,
          stored \in BOOLEAN :
          TreeVerifyProof(leaf_index, flip, stored)
    \/ \E proof_len \in 0..(MaxHeight + 1), bits_len \in 0..(MaxHeight + 1),
          bit \in BOOLEAN :
          TreeVerifyLengths(proof_len, bits_len, bit)

SpecMerkleTree == Init /\ [][NextMerkleTree]_vars

-----------------------------------------------------------------------------
(* The zk-meta-registry program: its instructions share no account with    *)
(* the pool and the verifier.                                              *)

CommitRegistry(op, args, out) ==
    LET post == IF out.result = "Ok" THEN out.st ELSE RegistryState
    IN /\ registry' = post.registry
       /\ vk_entries' = post.vk_entries
       /\ last' = [op |-> op, result |-> out.result, args |-> args]
       /\ UNCHANGED <<accounts, leaves>>

InitializeRegistry(signer) ==
    /\ signer \in Signers
    /\ CommitRegistry("registry_initialize", [authority |-> signer],
                      registry_initialize(RegistryState, signer))

RegisterVerificationKey(signer, circuit_name, circuit_version, verification_key_data, now) ==
    /\ registry.init
    /\ CommitRegistry("register_verification_key",
                      [authority |-> signer, circuit_name |-> circuit_name,
                       circuit_version |-> circuit_version,
                       verification_key_data |-> verification_key_data],
                      register_verification_key(RegistryState, signer,
                          circuit_name, circuit_version,
                          verification_key_data, now))

UpdateVerificationKey(signer, entry, new_version, verification_key_data, now) ==
    /\ registry.init
    /\ CommitRegistry("update_verification_key",
                      [authority |-> signer, entry |-> entry,
                       new_version |-> new_version,
                       verification_key_data |-> verification_key_data],
                      update_verification_key(RegistryState, signer, entry,
                          new_version, verification_key_data, now))

DeactivateVerificationKey(signer, entry) ==
    /\ registry.init
    /\ CommitRegistry("deactivate_verification_key",
                      [authority |-> signer, entry |-> entry,
                       was_active |-> vk_entries[entry].is_active],
                      deactivate_verification_key(RegistryState, signer, entry))

NextRegistry ==
    \/ \E signer \in Signers : InitializeRegistry(signer)
    \/ \E signer \in Signers, input \in RegisterInputs, now \in Times :
          RegisterVerificationKey(signer, input[1], input[2], input[3], now)
    \/ \E signer \in Signers, entry \in EntryAddresses, new_version \in Versions,
          verification_key_data \in UpdateKeyData, now \in Times :
          UpdateVerificationKey(signer, entry, new_version,
                                verification_key_data, now)
    \/ \E signer \in Signers, entry \in EntryAddresses :
          DeactivateVerificationKey(signer, entry)

SpecRegistry == Init /\ [][NextRegistry]_vars

-----------------------------------------------------------------------------
(* Properties *)

(* Every point of the proof that the verifier looks at is non-zero *)
ProofPointsNonZero(proof) ==
    /\ proof.pi_a.x # ZERO32
    /\ proof.pi_b.x[1] # ZERO32
    /\ proof.pi_b.x[2] # ZERO32
    /\ proof.pi_c.x # ZERO32

(* A settlement request that is well-formed in the accounts it is made on: *)
(* 5 signals, a proof without zero points, the pool's current root, a      *)
(* nullifier not yet registered, an amount the ledger and custody cover.   *)
WellFormedSettlement(args) ==
    /\ Len(args.public_signals) = SIGNAL_COUNT
    /\ ProofPointsNonZero(args.proof)
    /\ args.public_signals[1] = pool.merkle_root
    /\ ~NullifierSet_contains(nullifier_set, args.public_signals[2])
    /\ args.public_signals[4].hi = 0
    /\ args.public_signals[4].lo > 0
    /\ args.public_signals[4].lo <= pool.total_deposits
    /\ args.public_signals[4].lo <= token[args.accts.pool_token]

\* C3: value leaves pool custody only inside a verify_spend_proof call; no
\* caller obtains a payout by invoking the pool's withdraw directly.
C3_PayoutOnlyBySettlement ==
    [][token'["custody"] < token["custody"] => last'.op = "verify_spend_proof"]_vars

\* C4 (as stated): every withdraw whose spend_verifier key is not
\* SPEND_VERIFIER_ID is rejected with UnauthorizedWithdrawal, for every amount
\* and every pool state, and leaves ledger and balances unchanged.
C4_WrongCallerAlwaysUnauthorized ==
    [][(/\ last'.op = "withdraw"
        /\ last'.args.accts.spend_verifier # SPEND_VERIFIER_ID)
       => (/\ last'.result = "UnauthorizedWithdrawal"
           /\ UNCHANGED accounts)]_vars

\* C4 (amended): every withdraw whose spend_verifier key is not
\* SPEND_VERIFIER_ID is rejected and leaves ledger and balances unchanged; the
\* error is InvalidAmount when amount = 0, InsufficientFunds when amount
\* exceeds total_deposits, and UnauthorizedWithdrawal otherwise.
C4_WrongCallerRejected ==
    [][(/\ last'.op = "withdraw"
        /\ last'.args.accts.spend_verifier # SPEND_VERIFIER_ID)
       => (/\ last'.result =
                 IF last'.args.amount = 0 THEN "InvalidAmount"
                 ELSE IF last'.args.amount > pool.total_deposits
                 THEN "InsufficientFunds"
                 ELSE "UnauthorizedWithdrawal"
           /\ UNCHANGED accounts)]_vars

C4_Witness ==
    /\ last.op = "withdraw"
    /\ last.args.accts.spend_verifier # SPEND_VERIFIER_ID
    /\ last.result = "UnauthorizedWithdrawal"
    /\ last.args.amount <= token["custody"]

\* C5: a settlement submitted right after a successful deposit, with a
\* well-formed proof and 5 signals referencing the resulting root, a fresh
\* nullifier and 0 < amount <= deposited amount, succeeds.
C5_RoundTripSettles ==
    [][(/\ last.op = "deposit"
        /\ last.result = "Ok"
        /\ last'.op = "verify_spend_proof"
        /\ ~verifier.is_paused
        /\ WellFormedSettlement(last'.args))
       => last'.result = "Ok"]_vars

\* C6: a settlement whose signal [0] differs from the pool's current
\* merkle_root fails with InvalidMerkleRoot although its proof is valid, and
\* changes nothing.
C6_StaleRootIsInvalidMerkleRoot ==
    [][(/\ last'.op = "verify_spend_proof"
        /\ ~verifier.is_paused
        /\ Len(last'.args.public_signals) = SIGNAL_COUNT
        /\ ProofPointsNonZero(last'.args.proof)
        /\ last'.args.public_signals[1] # pool.merkle_root)
       => (/\ last'.result = "InvalidMerkleRoot"
           /\ UNCHANGED accounts)]_vars

C8_NoDuplicateNullifier ==
    \A i, j \in 1..Len(nullifier_set) :
        i # j => nullifier_set[i] # nullifier_set[j]

C8_Witness ==
    /\ Len(nullifier_set) >= 2
    /\ last.op = "NullifierSet_insert"
    /\ last.result = "DoubleSpend"

\* C9: while the verifier is paused every verify_spend_proof call fails with
\* VerifierPaused, whatever its proof and signals (also with a wrong signal
\* count), and changes nothing.
C9_PausedRejectsEverySettlement ==
    [][(last'.op = "verify_spend_proof" /\ verifier.is_paused)
       => (/\ last'.result = "VerifierPaused"
           /\ UNCHANGED accounts)]_vars

C9_Witness ==
    /\ last.op = "verify_spend_proof"
    /\ verifier.is_paused
    /\ last.result = "VerifierPaused"
    /\ Len(last.args.public_signals) # SIGNAL_COUNT

\* C10: pause_verifier and unpause_verifier succeed only for the stored
\* authority; for any other signer they fail with Unauthorized and is_paused
\* keeps its value.  The stored authority never changes after initialize.
C10_PauseOnlyByAuthority ==
    [][/\ (last'.op \in {"pause_verifier", "unpause_verifier"}
           => IF last'.args.authority = verifier.authority
              THEN /\ last'.result = "Ok"
                   /\ verifier'.is_paused = (last'.op = "pause_verifier")
              ELSE /\ last'.result = "Unauthorized"
                   /\ verifier'.is_paused = verifier.is_paused)
       /\ (verifier.init => verifier'.authority = verifier.authority)]_vars

C10_Witness ==
    /\ last.op = "pause_verifier"
    /\ last.result = "Unauthorized"
    /\ last.args.authority # verifier.authority
    /\ ~verifier.is_paused


(* The program state with the pause flag cleared *)
Unpaused(st) == [st EXCEPT !.verifier.is_paused = FALSE]

(* The outcome of every settlement request on the state st *)
SettlementOutcomes(st) ==
    [proof \in Proofs, public_signals \in SignalVectors |->
        verify_spend_proof(st,
                           [pool_authority |-> PoolPda, pool_token |-> "custody",
                            recipient_token |-> "alice_token"],
                           proof, public_signals)]

\* C11: pause_verifier and unpause_verifier change only is_paused (nullifier
\* set, counters, verification key, pool ledger and accumulator are untouched);
\* a successful unpause clears the flag, so after pause followed by unpause
\* every settlement has the outcome it had before the pause.
C11_PauseChangesOnlyFlag ==
    [][last'.op \in {"pause_verifier", "unpause_verifier"}
       => /\ UNCHANGED <<nullifier_set, pool, merkle_tree, token>>
          /\ verifier' = [verifier EXCEPT !.is_paused = verifier'.is_paused]
          /\ SettlementOutcomes(Unpaused(State))' = SettlementOutcomes(Unpaused(State))
          /\ (last'.op = "unpause_verifier" /\ last'.result = "Ok"
              => SettlementOutcomes(State)' = SettlementOutcomes(Unpaused(State)))]_vars

C11_Witness ==
    /\ last.op = "unpause_verifier"
    /\ last.result = "Ok"
    /\ last.args.was_paused
    /\ pool.total_deposits > 0


\* C12: in a tree initialized with a valid height, after every insert_leaf at
\* the indices 0, 1, 2, ... the stored root is the root of the full tree of
\* that height over the inserted leaves, every other position empty.
C12_RootIsFullTreeRoot ==
    (merkle_tree.height > 0 /\ Len(leaves) > 0)
        => merkle_tree.root = FullRoot(leaves, merkle_tree.height)

\* C13: in a tree of height 2, after L0 the root is H(L0, zeros[1]); after
\* L1 it is H(H(L0, L1), zeros[1]); after L2 filled_subtrees[0] is L2,
\* filled_subtrees[1] is H(L0, L1) and the root is H(H(L0, L1), zeros[1]).
C13_HeightTwoScenario ==
    (merkle_tree.height = 2 /\ Len(leaves) \in 1..3)
        => LET L0L1 == poseidon_hash(leaves[1], leaves[2])
           IN /\ Len(leaves) = 1
                   => merkle_tree.root = poseidon_hash(leaves[1], merkle_tree.zeros[1])
              /\ Len(leaves) = 2
                   => merkle_tree.root = poseidon_hash(L0L1, merkle_tree.zeros[1])
              /\ Len(leaves) = 3
                   => /\ merkle_tree.filled_subtrees[0] = leaves[3]
                      /\ merkle_tree.filled_subtrees[1] = L0L1
                      /\ merkle_tree.root = poseidon_hash(L0L1, merkle_tree.zeros[1])

(* The last call was verify_proof of the honest path of an inserted leaf   *)
(* against the stored root.                                                *)
HonestProofChecked ==
    /\ last.op = "verify_proof"
    /\ last.args.leaf_index < Len(leaves)
    /\ last.args.leaf = leaves[last.args.leaf_index + 1]
    /\ last.args.proof = HonestPath(leaves, merkle_tree.height, last.args.leaf_index)
    /\ last.args.path_indices = HonestBits(merkle_tree.height, last.args.leaf_index)
    /\ last.args.root = merkle_tree.root

\* C14: verify_proof returns true for the honest sibling path and direction
\* bits of every inserted leaf when the claimed root is the stored root.
C14_HonestProofAccepted ==
    HonestProofChecked => (last.result = "Ok" /\ last.value)

\* C15: verify_proof returns the error InvalidInput whenever the number of
\* siblings or of direction bits differs from the height, and a boolean,
\* the comparison of the fold over exactly `height` siblings with the
\* claimed root, only when both equal the height.
C15_WrongLengthIsError ==
    last.op = "verify_proof"
        => LET right_length == /\ Len(last.args.proof) = merkle_tree.height
                               /\ Len(last.args.path_indices) = merkle_tree.height
           IN /\ ~right_length => last.result = "InvalidInput"
              /\ right_length
                   => /\ last.result = "Ok"
                      /\ last.value
                           = (proof_walk(merkle_tree.height, last.args.proof,
                                         last.args.path_indices, 1, last.args.leaf)
                                = last.args.root)

C15_Witness ==
    /\ last.op = "verify_proof" /\ last.result = "InvalidInput"
    /\ Len(last.args.proof) = merkle_tree.height + 1
    /\ Len(last.args.path_indices) = merkle_tree.height


(* insert_leaf at the first two indices past the capacity of the tree,     *)
(* for the tree account as it is and as initialize(height) would make it.   *)
FullTrees ==
    {merkle_tree} \cup {MerkleTree_initialize(merkle_tree, height).st :
                           height \in 1..MaxHeight}

InsertPastCapacityFails ==
    \A tree \in FullTrees, over \in 0..1, leaf \in Commitments :
        insert_leaf(tree, Pow2(tree.height) + over, leaf)
            = Err("IndexOutOfBounds", tree)

\* C16: insert_leaf with an index >= 2^height returns IndexOutOfBounds and
\* leaves the tree as it was; a deposit made when next_index has reached
\* 2^height fails (with IndexOutOfBounds once the amount and the token
\* transfer are in order), inserts nothing at index 0 and leaves next_index,
\* merkle_root, total_deposits, the tree and the balances unchanged.
C16_TreeFullBoundary ==
    [][(last'.op = "deposit" /\ pool.next_index >= Pow2(merkle_tree.height))
        => /\ last'.result # "Ok"
           /\ UNCHANGED accounts
           /\ (/\ last'.args.amount > 0
               /\ token[last'.args.accts.user_token] >= last'.args.amount)
               => last'.result = "IndexOutOfBounds"
           /\ InsertPastCapacityFails]_vars

C16_Witness ==
    /\ last.op = "deposit" /\ last.result = "IndexOutOfBounds"
    /\ pool.next_index = Pow2(merkle_tree.height)
    /\ pool.total_deposits > 0


(* The error that the validation of register_verification_key names first  *)
(* for the arguments, "Ok" when it names none.                             *)
RegisterRejection(circuit_name, circuit_version, verification_key_data) ==
    IF circuit_name.len > CIRCUIT_NAME_MAX THEN "CircuitNameTooLong"
    ELSE IF circuit_version.len > VERSION_MAX THEN "VersionTooLong"
    ELSE IF verification_key_data.len > VK_DATA_MAX THEN "VerificationKeyTooLarge"
    ELSE IF verification_key_data.len = 0 THEN "EmptyVerificationKey"
    ELSE IF ~verification_key_data.nonzero THEN "InvalidVerificationKey"
    ELSE "Ok"

\* C17: register_verification_key signed by the authority, for a circuit
\* that has no entry yet, fails with CircuitNameTooLong for a name of more
\* than 32 bytes, VersionTooLong for a version of more than 16 bytes,
\* VerificationKeyTooLarge for more than 8192 bytes of key data,
\* EmptyVerificationKey for no key data and InvalidVerificationKey for key
\* data of zero bytes only, creating no entry and leaving circuit_count as
\* it was; with a name of 32 bytes, a version of 16 bytes and 8192 bytes of
\* key data it succeeds and creates the entry.
C17_RegisterValidation ==
    [][(/\ last'.op = "register_verification_key"
        /\ last'.args.authority = registry.authority
        /\ (last'.args.circuit_name \in EntryAddresses
              => ~vk_entries[last'.args.circuit_name].init))
        => LET a == last'.args
               rejection == RegisterRejection(a.circuit_name, a.circuit_version,
                                              a.verification_key_data)
           IN /\ rejection # "Ok"
                   => /\ last'.result = rejection
                      /\ UNCHANGED <<registry, vk_entries>>
              /\ (/\ a.circuit_name.len = CIRCUIT_NAME_MAX
                  /\ a.circuit_version.len = VERSION_MAX
                  /\ a.verification_key_data.len = VK_DATA_MAX
                  /\ a.verification_key_data.nonzero)
                   => /\ last'.result = "Ok"
                      /\ vk_entries'[a.circuit_name].init
                      /\ registry'.circuit_count = registry.circuit_count + 1]_vars

(* The last instruction was one of the three that only the authority may   *)
(* call, signed by somebody else.                                          *)
GuardedOps == {"register_verification_key", "update_verification_key",
               "deactivate_verification_key"}

\* C18 (as stated): register_verification_key, update_verification_key and
\* deactivate_verification_key signed by anyone but the stored authority
\* fail with Unauthorized and change neither the entries nor circuit_count.
C18_NonAuthorityAlwaysUnauthorized ==
    [][(last'.op \in GuardedOps /\ last'.args.authority # registry.authority)
        => /\ last'.result = "Unauthorized"
           /\ UNCHANGED <<registry, vk_entries>>]_vars

\* C18 (amended): such a call always fails and changes neither the entries
\* nor circuit_count; the error is Unauthorized whenever the entry account
\* passes its constraints, that is, for register the name is at most 32
\* bytes and has no entry yet, and for update and deactivate the entry
\* exists.
C18_NonAuthorityRejected ==
    [][(last'.op \in GuardedOps /\ last'.args.authority # registry.authority)
        => LET a == last'.args
               entry_ok ==
                   IF last'.op = "register_verification_key"
                   THEN /\ a.circuit_name.len <= MAX_SEED_LEN
                        /\ ~vk_entries[a.circuit_name].init
                   ELSE vk_entries[a.entry].init
           IN /\ last'.result # "Ok"
              /\ UNCHANGED <<registry, vk_entries>>
              /\ entry_ok => last'.result = "Unauthorized"]_vars

C18_Witness ==
    /\ last.op = "deactivate_verification_key"
    /\ last.result = "Unauthorized"
    /\ last.args.authority # registry.authority
    /\ vk_entries[last.args.entry].init
    /\ vk_entries[last.args.entry].is_active

\* C19: an entry that exists keeps existing in every later state, and
\* deactivate_verification_key changes nothing but is_active of its entry,
\* which it sets to false: name, version, key bytes, key hash, registration
\* time, the other entries and circuit_count stay as they were.
C19_EntryKeptDeactivateOnlyFlag ==
    [][/\ \A e \in EntryAddresses : vk_entries[e].init => vk_entries'[e].init
       /\ last'.op = "deactivate_verification_key"
            => /\ registry' = registry
               /\ vk_entries' = IF last'.result = "Ok"
                                 THEN [vk_entries EXCEPT
                                          ![last'.args.entry].is_active = FALSE]
                                 ELSE vk_entries]_vars

C19_Witness ==
    /\ last.op = "deactivate_verification_key" /\ last.result = "Ok"
    /\ last.args.was_active
    /\ vk_entries[last.args.entry].init
    /\ ~vk_entries[last.args.entry].is_active
    /\ vk_entries[last.args.entry].verification_key.len > 0
    /\ registry.circuit_count > 0


\* C21: NullifierSet insert of a value already present fails with DoubleSpend,
\* also when the set is full; insert of an absent value into a full set fails
\* with NullifierSetFull; both leave the set as it was.  Any other insert
\* appends the value as the last element and keeps every stored element and
\* the order.  contains never changes the set.
C21_InsertOutcomes ==
    [][/\ last'.op = "NullifierSet_insert"
            => LET n == last'.args.nullifier
                   present == \E i \in 1..Len(nullifier_set) : nullifier_set[i] = n
               IN IF present
                  THEN last'.result = "DoubleSpend" /\ nullifier_set' = nullifier_set
                  ELSE IF Len(nullifier_set) >= MaxNullifiers
                  THEN last'.result = "NullifierSetFull"
                       /\ nullifier_set' = nullifier_set
                  ELSE /\ last'.result = "Ok"
                       /\ Len(nullifier_set') = Len(nullifier_set) + 1
                       /\ nullifier_set'[Len(nullifier_set')] = n
                       /\ \A i \in 1..Len(nullifier_set) :
                              nullifier_set'[i] = nullifier_set[i]
       /\ last'.op = "NullifierSet_contains" => nullifier_set' = nullifier_set]_vars

C21_Witness ==
    /\ last.op = "NullifierSet_insert"
    /\ last.result = "DoubleSpend"
    /\ Len(nullifier_set) = MaxNullifiers


\* C22: in every state of a tree initialized with a valid height, right
\* after initialize and after every insert_leaf, the stored root is the
\* value compute_root derives from filled_subtrees and zeros.
C22_RootIsComputeRoot ==
    merkle_tree.height > 0 => merkle_tree.root = compute_root(merkle_tree)

\* C23: once the pool is initialized the tree has the height of the pool
\* ledger, tree_height = 20, and a deposit is rejected for its leaf index
\* only when next_index has reached 2^tree_height.
C23_TreeHeightIsPoolHeight ==
    pool.init
        => /\ merkle_tree.height = pool.tree_height
           /\ (last.op = "deposit" /\ last.result = "IndexOutOfBounds")
                => pool.next_index >= Pow2(pool.tree_height)

\* C24: for an initialized tree and any index i < 2^height, inserting two
\* different leaves at i gives two different roots.
C24_RootCommitsToLeaf ==
    merkle_tree.height > 0
        => \A i \in 0..(Pow2(merkle_tree.height) - 1) :
              \A l1, l2 \in Commitments :
                  l1 # l2 => insert_leaf(merkle_tree, i, l1).st.root
                               # insert_leaf(merkle_tree, i, l2).st.root

(* The number of trailing 1-bits of i *)
RECURSIVE TrailingOnes(_)
TrailingOnes(i) == IF i % 2 = 0 THEN 0 ELSE 1 + TrailingOnes(i \div 2)

(* leaf combined, left operand first, with filled[0..t-1] *)
RECURSIVE Promoted(_, _, _)
Promoted(filled, leaf, t) ==
    IF t = 0 THEN leaf
    ELSE poseidon_hash(filled[t - 1], Promoted(filled, leaf, t - 1))

\* C25: a successful insert_leaf at index i writes filled_subtrees at level
\* t, the number of trailing 1-bits of i, with the leaf combined pairwise,
\* left operand first, with filled_subtrees[0..t-1], and writes no entry
\* when t >= height; every other entry, zeros and height stay as they were.
C25_FrontierUpdate ==
    [][(last'.op = "insert_leaf" /\ last'.result = "Ok")
        => LET t == TrailingOnes(last'.args.leaf_index)
               filled == merkle_tree.filled_subtrees
           IN /\ merkle_tree'.filled_subtrees
                   = IF t >= merkle_tree.height THEN filled
                     ELSE [filled EXCEPT
                              ![t] = Promoted(filled, last'.args.leaf, t)]
              /\ merkle_tree'.zeros = merkle_tree.zeros
              /\ merkle_tree'.height = merkle_tree.height]_vars

C25_Witness ==
    /\ last.op = "insert_leaf" /\ last.result = "Ok"
    /\ last.args.leaf_index = 1
    /\ merkle_tree.height = 2
    /\ merkle_tree.filled_subtrees[1] = poseidon_hash(leaves[1], leaves[2])

\* C26: MerkleTree initialize fails for height 0 and for every height above
\* 20 and leaves the tree as it was; for a height in 1..20 it succeeds.
C26_InitializeHeights ==
    [][last'.op = "MerkleTree_initialize"
        => LET height == last'.args.height
           IN IF height = 0 \/ height > FILLED_SUBTREES_LEN
              THEN last'.result # "Ok" /\ merkle_tree' = merkle_tree
              ELSE last'.result = "Ok" /\ merkle_tree'.height = height]_vars

C26_Witness ==
    /\ last.op = "MerkleTree_initialize" /\ last.result # "Ok"
    /\ last.args.height = 0
    /\ merkle_tree.height > 0 /\ Len(leaves) > 0

(* The fold of verify_proof over the first k siblings *)
RECURSIVE Fold(_, _, _, _)
Fold(leaf, proof, bits, k) ==
    IF k = 0 THEN leaf
    ELSE LET current == Fold(leaf, proof, bits, k - 1)
         IN IF bits[k] THEN poseidon_hash(current, proof[k])
            ELSE poseidon_hash(proof[k], current)

\* C27: with a path and bits of `height` entries verify_proof returns true
\* exactly when the fold of the leaf with the siblings (the current value
\* on the left where the bit is set, on the right otherwise) is the claimed
\* root; replacing one sibling of an accepted path by another value makes
\* it return false; verify_proof never changes the tree.
C27_VerifyProofIsFold ==
    [][last'.op = "verify_proof"
        => LET a == last'.args
               height == merkle_tree.height
           IN /\ merkle_tree' = merkle_tree
              /\ last'.result = "Ok"
                   => /\ last'.value
                           = (Fold(a.leaf, a.proof, a.path_indices, height) = a.root)
                      /\ last'.value
                           => \A k \in 1..height :
                                 \A v \in {ZERO32, poseidon_hash(a.proof[k], a.proof[k])} :
                                     v # a.proof[k]
                                       => ~verify_proof(merkle_tree, a.leaf,
                                              [a.proof EXCEPT ![k] = v],
                                              a.path_indices, a.root).value]_vars

C27_Witness ==
    /\ last.op = "verify_proof" /\ last.result = "Ok" /\ last.value
    /\ merkle_tree.height = 2
    /\ last.args.leaf_index = 1


\* C28: a deposit or a verify_spend_proof that is rejected has written
\* nothing at the point where it is rejected: every check comes before the
\* token transfer, the ledger write and the registry write.
C28_NoWriteBeforeRejection ==
    [][/\ (last'.op = "deposit" /\ last'.result # "Ok")
            => deposit(State, last'.args.accts, last'.args.commitment,
                       last'.args.amount).st = State
       /\ (last'.op = "verify_spend_proof" /\ last'.result # "Ok")
            => verify_spend_proof(State, last'.args.accts, last'.args.proof,
                                  last'.args.public_signals).st = State]_vars

\* C30: withdraw called with the spend_verifier account that
\* verify_spend_proof passes to it (the verifier account), for an amount
\* with 0 < amount <= total_deposits, is not rejected with
\* UnauthorizedWithdrawal.
C30_PresentedCallerAccepted ==
    [][(/\ last'.op = "withdraw"
        /\ last'.args.accts.spend_verifier = VerifierPda
        /\ last'.args.amount > 0
        /\ last'.args.amount <= pool.total_deposits)
        => last'.result # "UnauthorizedWithdrawal"]_vars


\* C33: groth16_verify fails with InvalidVerificationKey whenever the number
\* of ic points of the key differs from the number of public signals plus 1.
C33_IcCountIsInvalidKey ==
    (/\ last.op = "groth16_verify"
     /\ ProofPointsNonZero(last.args.proof)
     /\ Len(last.args.vk.ic) # Len(last.args.public_signals) + 1)
        => last.result = "InvalidVerificationKey"

(* A G1 point or G2 point that is the zero element *)
IsZeroG1(p) == p.x = ZERO32
IsZeroG2(p) == p.x = <<ZERO32, ZERO32>>

SomePointIsZero(vk, proof) ==
    \/ IsZeroG1(proof.pi_a) \/ IsZeroG2(proof.pi_b) \/ IsZeroG1(proof.pi_c)
    \/ IsZeroG1(vk.alpha_g1) \/ IsZeroG2(vk.beta_g2)
    \/ IsZeroG2(vk.gamma_g2) \/ IsZeroG2(vk.delta_g2)
    \/ \E i \in 1..Len(vk.ic) : IsZeroG1(vk.ic[i])

\* C34: a proof and key of which some point (pi_a, pi_b, pi_c, alpha_g1,
\* beta_g2, gamma_g2, delta_g2 or an ic point) is the zero element is never
\* accepted by groth16_verify.
C34_ZeroPointNeverAccepted ==
    (last.op = "groth16_verify" /\ SomePointIsZero(last.args.vk, last.args.proof))
        => ~(last.result = "Ok" /\ last.value)


\* C31: pool.total_deposits is 0 after initialize, grows by the amount of
\* each successful deposit, shrinks by the amount of each successful
\* withdrawal and is changed by nothing else, so it is the sum of the deposits
\* minus the sum of the withdrawals; it never goes below 0; a withdrawal of
\* more than total_deposits fails with InsufficientFunds and changes nothing.
C31_LedgerBalance ==
    [][/\ pool'.total_deposits >= 0
       /\ pool'.total_deposits =
            IF last'.op = "pool_initialize" /\ last'.result = "Ok" THEN 0
            ELSE IF last'.op = "deposit" /\ last'.result = "Ok"
            THEN pool.total_deposits + last'.args.amount
            ELSE IF last'.op = "withdraw" /\ last'.result = "Ok"
            THEN pool.total_deposits - last'.args.amount
            ELSE pool.total_deposits
       /\ (last'.op = "withdraw" /\ last'.args.amount > pool.total_deposits)
            => /\ last'.result = "InsufficientFunds"
               /\ UNCHANGED accounts]_vars

C31_Witness ==
    /\ last.op = "withdraw"
    /\ last.result = "InsufficientFunds"
    /\ pool.total_deposits > 0

\* C32: the balance of the pool's custody token account is at least
\* pool.total_deposits in every state: no deposit raises total_deposits
\* while its tokens go to another account.
C32_CustodyBacksLedger == token["custody"] >= pool.total_deposits

\* C35: a verify_spend_proof on an unpaused verifier with 5 signals whose
\* amount signal has a non-zero byte after its first 8 bytes fails with
\* InvalidPublicSignal: the signal is rejected, not truncated.
C35_WideAmountRejected ==
    [][(/\ last'.op = "verify_spend_proof"
        /\ ~verifier.is_paused
        /\ Len(last'.args.public_signals) = SIGNAL_COUNT
        /\ last'.args.public_signals[4].hi # 0)
        => last'.result = "InvalidPublicSignal"]_vars


\* C37: leaf indices are sequential: next_index is 0 after initialize, a
\* successful deposit inserts its commitment at index next_index and raises
\* next_index by exactly 1, and no other step (failed deposit, withdraw,
\* verifier instruction) changes next_index; so the k-th successful deposit
\* has index k-1 and next_index is the number of successful deposits.
C37_SequentialLeafIndex ==
    [][/\ (last'.op = "pool_initialize" /\ last'.result = "Ok")
            => pool'.next_index = 0
       /\ (last'.op = "deposit" /\ last'.result = "Ok")
            => /\ pool'.next_index = pool.next_index + 1
               /\ merkle_tree' = insert_leaf(merkle_tree, pool.next_index,
                                             last'.args.commitment).st
       /\ ~(last'.op \in {"pool_initialize", "deposit"} /\ last'.result = "Ok")
            => pool'.next_index = pool.next_index]_vars

C37_Witness ==
    /\ last.op = "deposit"
    /\ last.result = "Ok"
    /\ pool.next_index = 1

\* C38: in every state after the pool's initialize, before and after
\* deposits and withdrawals, pool.merkle_root is the root stored in the
\* merkle_tree account.
C38_PoolRootMirrorsTree == pool.init => pool.merkle_root = merkle_tree.root

C38_Witness ==
    /\ last.op = "withdraw"
    /\ last.result = "Ok"
    /\ pool.next_index = 1
    /\ pool.merkle_root = merkle_tree.root

C40_HashOfStoredKey ==
    \A e \in EntryAddresses :
        vk_entries[e].init
            => vk_entries[e].verification_key_hash
                 = sha256(vk_entries[e].verification_key)

====
